---- MODULE Spec2Model ----
(***************************************************************************)
(* A model of manimlib/shader_wrapper.py: the ShaderWrapper descriptor     *)
(* (construction, __eq__, copy, the two derived ids, replace_code,         *)
(* combine_with / read_in) and the cached, recursive source resolver       *)
(* get_shader_code_from_file.                                              *)
(***************************************************************************)
EXTENDS Integers, Sequences, FiniteSets, TLC

VARIABLES
    fs,        \* the shader files on disk: path -> text, or None when absent
    cache,     \* lru_cache of get_shader_code_from_file: <<filename, value>>, oldest first
    stack,     \* the active calls of get_shader_code_from_file, outermost first
    ret,       \* the value a finished inner call hands to its caller
    outcome,   \* what the outermost call gave its caller
    sw,        \* the ShaderWrapper objects: id -> attributes
    U,         \* the uniforms dict objects, by the id of the wrapper that made them
    T,         \* the texture_paths dict objects, likewise
    PC,        \* the program_code dict objects, likewise
    copyOf,    \* copyOf[c] = d when c was made by d.copy(), 0 otherwise
    last       \* the last ShaderWrapper call: what was called and how it ended

rvars == <<fs, cache, stack, ret, outcome>>
dvars == <<sw, U, T, PC, copyOf, last>>
vars == <<fs, cache, stack, ret, outcome, sw, U, T, PC, copyOf, last>>

\* ------------------------------------------------------------------ text

\* A text is a sequence of atoms. "\n" ends a line, "x" is a piece of GLSL code,
\* "//" opens a comment, and an atom of DirAtoms is the literal string
\* "#INSERT <name>.glsl".
NL == "\n"
DirAtoms == {"#INSERT a.glsl", "#INSERT b.glsl"}

RECURSIVE SplitFrom(_, _, _)
SplitFrom(text, i, line) ==
    IF i > Len(text) THEN <<line>>
    ELSE IF text[i] = NL THEN <<line>> \o SplitFrom(text, i + 1, <<>>)
    ELSE SplitFrom(text, i + 1, Append(line, text[i]))

\* The lines of a text as ^ and $ of re.MULTILINE delimit them.
SplitLines(text) == SplitFrom(text, 1, <<>>)

RECURSIVE JoinLines(_)
JoinLines(lines) ==
    IF Len(lines) = 0 THEN <<>>
    ELSE IF Len(lines) = 1 THEN lines[1]
    ELSE lines[1] \o <<NL>> \o JoinLines(Tail(lines))

\* re.findall(r"^#INSERT .*\.glsl$", result, flags=re.MULTILINE): a line
\* matches when it begins with "#INSERT " and ends with ".glsl", whatever lies
\* between (the dot matches everything but the newline).
IsInsertLine(line) ==
    /\ Len(line) >= 1
    /\ line[1] \in DirAtoms
    /\ line[Len(line)] \in DirAtoms

FindInsertions(text) ==
    SelectSeq(SplitLines(text), IsInsertLine)

\* atom.replace("#INSERT ", "")
StripAtom(atom) ==
    CASE atom = "#INSERT a.glsl" -> "a.glsl"
      [] atom = "#INSERT b.glsl" -> "b.glsl"
      [] OTHER -> atom

RECURSIVE StripInsert(_)
\* line.replace("#INSERT ", ""): every occurrence of the keyword is removed.
StripInsert(line) ==
    IF Len(line) = 0 THEN ""
    ELSE StripAtom(line[1]) \o StripInsert(Tail(line))

\* os.path.join("inserts", name)
InsertPath(line) == "inserts/" \o StripInsert(line)

\* Whether the atoms of pat occur in text at position i.
OccursAt(text, pat, i) ==
    /\ i + Len(pat) - 1 <= Len(text)
    /\ \A k \in 1..Len(pat) : text[i + k - 1] = pat[k]

RECURSIVE ReplaceFrom(_, _, _, _)
ReplaceFrom(text, pat, new, i) ==
    IF i > Len(text) THEN <<>>
    ELSE IF OccursAt(text, pat, i)
         THEN new \o ReplaceFrom(text, pat, new, i + Len(pat))
         ELSE <<text[i]>> \o ReplaceFrom(text, pat, new, i + 1)

\* str.replace(old, new): every non-overlapping occurrence of the substring,
\* left to right, wherever in the text it stands.
StrReplace(text, pat, new) == ReplaceFrom(text, pat, new, 1)

\* ------------------------------------------------------- the file system

\* What get_shader_code_from_file returns: a text, or Python's None.
NoneVal == [isNone |-> TRUE, text |-> <<>>]
TextVal(t) == [isNone |-> FALSE, text |-> t]

Paths == {"main.glsl", "inserts/a.glsl", "inserts/b.glsl"}

\* find_file(filename, directories, extensions=[]): the path of an existing
\* file, IOError when no directory holds one of that name.
find_file_raises(files, filename) ==
    \/ filename \notin DOMAIN files
    \/ files[filename].isNone

\* with open(filepath, "r") as f: result = f.read()
read_file(files, filename) == files[filename].text

\* ------------------------------------------------- lru_cache(maxsize=12)

maxsize == 12

CacheHas(c, key) == \E k \in 1..Len(c) : c[k][1] = key

CacheGet(c, key) == (CHOOSE k \in 1..Len(c) : c[k][1] = key)

\* A hit moves the entry to the most-recently-used end.
CacheTouch(c, key) ==
    LET k == CacheGet(c, key)
    IN  SelectSeq(c, LAMBDA e : e[1] # key) \o <<c[k]>>

\* A miss stores the computed value and evicts the least recently used entry
\* once more than maxsize are held.
CacheStore(c, key, val) ==
    LET c1 == SelectSeq(c, LAMBDA e : e[1] # key) \o <<<<key, val>>>>
    IN  IF Len(c1) > maxsize THEN Tail(c1) ELSE c1

\* --------------------------------------------- get_shader_code_from_file

RecursionLimit == 4

NoRet == [has |-> FALSE, val |-> NoneVal]
Ret(v) == [has |-> TRUE, val |-> v]

Idle == [status |-> "idle", filename |-> "", exc |-> "", val |-> NoneVal]
Running(f) == [status |-> "running", filename |-> f, exc |-> "", val |-> NoneVal]
Returned(f, v) == [status |-> "returned", filename |-> f, exc |-> "", val |-> v]
Raised(f, e) == [status |-> "raised", filename |-> f, exc |-> e, val |-> NoneVal]

\* The call's entry, up to the loop over the insertions: a cache hit, an empty
\* filename and a file that find_file does not find all return at once; any
\* other call reads the file and collects its "#INSERT" lines.
Enter(files, c, filename) ==
    IF CacheHas(c, filename)
    THEN [returns |-> TRUE, val |-> c[CacheGet(c, filename)][2],
          cache |-> CacheTouch(c, filename), frame |-> <<>>]
    ELSE IF filename = ""
    THEN [returns |-> TRUE, val |-> NoneVal,
          cache |-> CacheStore(c, filename, NoneVal), frame |-> <<>>]
    ELSE IF find_file_raises(files, filename)
    THEN [returns |-> TRUE, val |-> NoneVal,
          cache |-> CacheStore(c, filename, NoneVal), frame |-> <<>>]
    ELSE [returns |-> FALSE, val |-> NoneVal, cache |-> c,
          frame |-> <<[filename |-> filename,
                       result |-> read_file(files, filename),
                       insertions |-> FindInsertions(read_file(files, filename)),
                       i |-> 1]>>]

Top == stack[Len(stack)]
Pop == SubSeq(stack, 1, Len(stack) - 1)

\* A caller calls get_shader_code_from_file(filename).
Call(filename) ==
    /\ stack = <<>>
    /\ LET e == Enter(fs, cache, filename)
       IN  /\ cache' = e.cache
           /\ stack' = e.frame
           /\ outcome' = IF e.returns THEN Returned(filename, e.val)
                         ELSE Running(filename)
    /\ ret' = NoRet
    /\ UNCHANGED <<fs, dvars>>

\* for line in insertions: get_shader_code_from_file(os.path.join("inserts", ...)).
\* The interpreter raises RecursionError once the calls nest too deep; an
\* exception unwinds every active call and nothing is cached for them.
Recurse ==
    /\ stack # <<>>
    /\ ~ret.has
    /\ Top.i <= Len(Top.insertions)
    /\ IF Len(stack) >= RecursionLimit
       THEN /\ stack' = <<>>
            /\ outcome' = Raised(outcome.filename, "RecursionError")
            /\ UNCHANGED <<cache, ret>>
       ELSE LET e == Enter(fs, cache, InsertPath(Top.insertions[Top.i]))
            IN  /\ cache' = e.cache
                /\ stack' = stack \o e.frame
                /\ ret' = IF e.returns THEN Ret(e.val) ELSE NoRet
                /\ UNCHANGED outcome
    /\ UNCHANGED <<fs, dvars>>

\* result = result.replace(line, inserted_code): str.replace raises TypeError
\* when inserted_code is None.
Substitute ==
    /\ stack # <<>>
    /\ ret.has
    /\ IF ret.val.isNone
       THEN /\ stack' = <<>>
            /\ outcome' = Raised(outcome.filename, "TypeError")
       ELSE /\ stack' = [stack EXCEPT ![Len(stack)] =
                   [@ EXCEPT !.result = StrReplace(@, Top.insertions[Top.i], ret.val.text),
                             !.i = @ + 1]]
            /\ UNCHANGED outcome
    /\ ret' = NoRet
    /\ UNCHANGED <<fs, cache, dvars>>

\* return result
Return ==
    /\ stack # <<>>
    /\ ~ret.has
    /\ Top.i > Len(Top.insertions)
    /\ cache' = CacheStore(cache, Top.filename, TextVal(Top.result))
    /\ stack' = Pop
    /\ IF Len(stack) = 1
       THEN /\ outcome' = Returned(outcome.filename, TextVal(Top.result))
            /\ ret' = NoRet
       ELSE /\ ret' = Ret(TextVal(Top.result))
            /\ UNCHANGED outcome
    /\ UNCHANGED <<fs, dvars>>

\* ---------------------------------------------------------- ShaderWrapper

MaxObjs == 2
Ids == 1..MaxObjs

\* A dict keeps its insertion order: a sequence of <<key, value>> with distinct
\* keys. A uniform's value is a number, held as a Python float or as a numpy
\* array of it.
Keys(d) == { d[k][1] : k \in 1..Len(d) }
Lookup(d, key) == d[CHOOSE k \in 1..Len(d) : d[k][1] = key][2]

\* d[key] = val: an existing key keeps its place, a new one goes last.
DictSet(d, key, val) ==
    IF key \in Keys(d)
    THEN [k \in 1..Len(d) |-> IF d[k][1] = key THEN <<key, val>> ELSE d[k]]
    ELSE Append(d, <<key, val>>)

Float(v) == [v |-> v, arr |-> FALSE]
\* np.array(value)
NpArray(val) == [v |-> val.v, arr |-> TRUE]

\* The resolved sources of the shader folders on disk, as
\* get_shader_code_from_file gives them for vert.glsl, geom.glsl and frag.glsl.
Folders == {"f1", "f2"}

get_code(folder, name) ==
    CASE folder = "f1" /\ name = "vert" -> TextVal(<<"x">>)
      [] folder = "f1" /\ name = "geom" -> NoneVal
      [] folder = "f1" /\ name = "frag" -> TextVal(<<"y">>)
      [] folder = "f2" /\ name = "vert" -> TextVal(<<"y", "x">>)
      [] folder = "f2" /\ name = "geom" -> TextVal(<<"x">>)
      [] folder = "f2" /\ name = "frag" -> TextVal(<<>>)
      [] OTHER -> NoneVal

init_program_code(folder) ==
    [vertex_shader |-> get_code(folder, "vert"),
     geometry_shader |-> get_code(folder, "geom"),
     fragment_shader |-> get_code(folder, "frag")]

\* hash(str): a function of the characters alone, with a bounded range.
HashMod == 251
AtomCode(a) == IF a = "x" THEN 1 ELSE IF a = "y" THEN 2 ELSE 3
RECURSIVE HashFrom(_, _)
HashFrom(text, h) ==
    IF Len(text) = 0 THEN h
    ELSE HashFrom(Tail(text), (h * 7 + AtomCode(text[1])) % HashMod)
hash(text) == HashFrom(text, Len(text) + 1)

\* code or ""
OrEmpty(val) == IF val.isNone THEN <<>> ELSE val.text

create_program_id(code) ==
    hash(OrEmpty(code.vertex_shader) \o OrEmpty(code.geometry_shader)
         \o OrEmpty(code.fragment_shader))

\* "|".join(map(str, [...])): str(dict) lists the entries in insertion order
\* and writes an array value differently from a float.
create_id(program_id, uniforms, texture_paths, depth_test, render_primitive) ==
    <<program_id, uniforms, texture_paths, depth_test, render_primitive>>

\* moderngl's primitive tags, and str(render_primitive).
TRIANGLES == 4
TRIANGLE_STRIP == 5
StrOfInt(n) == IF n = TRIANGLES THEN "4" ELSE IF n = TRIANGLE_STRIP THEN "5" ELSE "?"

Absent ==
    [live |-> FALSE, vert_data |-> <<>>, has_indices |-> FALSE, vert_indices |-> <<>>,
     shader_folder |-> "", uniforms |-> 0, texture_paths |-> 0, program_code |-> 0,
     depth_test |-> FALSE, use_clip_plane |-> FALSE, render_primitive |-> "",
     program_id |-> 0, id |-> <<>>]

NoCode == [vertex_shader |-> NoneVal, geometry_shader |-> NoneVal, fragment_shader |-> NoneVal]

Live(d) == sw[d].live
Uniforms(d) == U[sw[d].uniforms]
TexturePaths(d) == T[sw[d].texture_paths]
ProgramCode(d) == PC[sw[d].program_code]

NoCall == [op |-> "none", self |-> 0, args |-> <<>>, raised |-> "", res |-> FALSE]
CallRec(op, self, args, raised, res) ==
    [op |-> op, self |-> self, args |-> args, raised |-> raised, res |-> res]

\* The object a constructor or copy() creates takes the lowest free id.
Fresh(d) == ~Live(d) /\ \A e \in Ids : e < d => Live(e)

\* ShaderWrapper(vert_data, vert_indices, shader_folder, uniforms, texture_paths,
\*               depth_test, use_clip_plane, render_primitive)
Construct(d, vd, has, vi, folder, u, t, depth, clip, prim) ==
    /\ Fresh(d)
    /\ LET code == init_program_code(folder)
           pid == create_program_id(code)
       IN  /\ sw' = [sw EXCEPT ![d] =
                  [live |-> TRUE, vert_data |-> vd, has_indices |-> has,
                   vert_indices |-> vi, shader_folder |-> folder,
                   uniforms |-> d, texture_paths |-> d, program_code |-> d,
                   depth_test |-> depth, use_clip_plane |-> clip,
                   render_primitive |-> StrOfInt(prim), program_id |-> pid,
                   id |-> create_id(pid, u, t, depth, StrOfInt(prim))]]
           /\ U' = [U EXCEPT ![d] = u]
           /\ T' = [T EXCEPT ![d] = t]
           /\ PC' = [PC EXCEPT ![d] = code]
    /\ last' = CallRec("construct", d, <<>>, "", FALSE)
    /\ UNCHANGED <<copyOf, rvars>>

\* ------------------------------------------------------ numpy on buffers

\* The record np.resize puts in an array grown from nothing.
Zero == 0

\* resize_array(nparray, length): the array itself when it has that length,
\* else np.resize: the old contents repeated (or cut) to fill the new length.
resize_array(arr, length) ==
    IF Len(arr) = length THEN arr
    ELSE [i \in 1..length |->
            IF Len(arr) = 0 THEN Zero ELSE arr[((i - 1) % Len(arr)) + 1]]

Min(a, b) == IF a <= b THEN a ELSE b

\* arr[lo:hi] = val. The slice is cut to the array; val must have the slice's
\* length or a length of one (broadcast), else numpy raises ValueError.
SliceAssign(arr, lo, hi, val) ==
    LET l == Min(lo, Len(arr))
        h == Min(hi, Len(arr))
        m == IF h > l THEN h - l ELSE 0
    IN  IF Len(val) = m
        THEN [ok |-> TRUE,
              arr |-> [i \in 1..Len(arr) |->
                         IF i > l /\ i <= l + m THEN val[i - l] ELSE arr[i]]]
        ELSE IF Len(val) = 1
        THEN [ok |-> TRUE,
              arr |-> [i \in 1..Len(arr) |->
                         IF i > l /\ i <= l + m THEN val[1] ELSE arr[i]]]
        ELSE [ok |-> FALSE, arr |-> arr]

\* A merge that copies the indices as they are.
OffsetIndices_None(src, n_points) == src.vert_indices

\* A merge that offsets by the cursor as it stands after the source's vertices.
OffsetIndices_After(src, n_points) ==
    [i \in 1..Len(src.vert_indices) |->
        src.vert_indices[i] + n_points + Len(src.vert_data)]

\* sw.vert_indices + n_points
OffsetIndices(src, n_points) ==
    [i \in 1..Len(src.vert_indices) |-> src.vert_indices[i] + n_points]

RECURSIVE SumLen(_, _)
SumLen(bufs, field) ==
    IF Len(bufs) = 0 THEN 0
    ELSE Len(bufs[1][field]) + SumLen(Tail(bufs), field)

Buffers(w) ==
    [vert_data |-> w.vert_data, has_indices |-> w.has_indices,
     vert_indices |-> w.vert_indices]

\* The k-th argument of read_in as the loop finds it: the temporary copy that
\* combine_with passes (0), self as the loop has left it so far, or another
\* wrapper.
Source(self, refs, tmp, cur, k) ==
    IF refs[k] = 0 THEN tmp
    ELSE IF refs[k] = self THEN Buffers(cur)
    ELSE Buffers(sw[refs[k]])

RECURSIVE read_in_loop(_, _, _, _, _)
\* for sw in shader_wrappers: ...
read_in_loop(self, refs, tmp, cur, k) ==
    IF k > Len(refs) \/ cur.raised # "" THEN cur
    ELSE
      LET src == Source(self, refs, tmp, cur, k)
          new_n_points == cur.n_points + Len(src.vert_data)
          a == SliceAssign(cur.vert_data, cur.n_points, new_n_points, src.vert_data)
          both == cur.has_indices /\ src.has_indices
          new_n_verts == cur.n_verts + Len(src.vert_indices)
          b == SliceAssign(cur.vert_indices, cur.n_verts, new_n_verts,
                           OffsetIndices(src, cur.n_points))
      IN  IF ~a.ok
          THEN [cur EXCEPT !.raised = "ValueError"]
          ELSE IF both /\ ~b.ok
          THEN [cur EXCEPT !.vert_data = a.arr, !.raised = "ValueError"]
          ELSE read_in_loop(self, refs, tmp,
                 [cur EXCEPT !.vert_data = a.arr,
                             !.vert_indices = IF both THEN b.arr ELSE @,
                             !.n_verts = IF both THEN new_n_verts ELSE @,
                             !.n_points = new_n_points],
                 k + 1)

\* self.read_in(*shader_wrappers): the buffers self ends with and the exception
\* raised, if any. len(None) raises TypeError.
read_in(self, refs, tmp) ==
    LET srcs == [k \in 1..Len(refs) |-> Source(self, refs, tmp, sw[self], k)]
        total_len == SumLen(srcs, "vert_data")
        vd == resize_array(sw[self].vert_data, total_len)
        start == [vert_data |-> vd, has_indices |-> sw[self].has_indices,
                  vert_indices |-> sw[self].vert_indices,
                  n_points |-> 0, n_verts |-> 0, raised |-> ""]
    IN  IF sw[self].has_indices /\ \E k \in 1..Len(srcs) : ~srcs[k].has_indices
        THEN [start EXCEPT !.raised = "TypeError"]
        ELSE read_in_loop(self, refs, tmp,
               [start EXCEPT !.vert_indices =
                   IF sw[self].has_indices
                   THEN resize_array(@, SumLen(srcs, "vert_indices")) ELSE @],
               1)

\* The longest buffer a merge of the model may build.
MaxLen == 6

Fits(self, refs, tmp) ==
    LET srcs == [k \in 1..Len(refs) |-> Source(self, refs, tmp, sw[self], k)]
    IN  /\ SumLen(srcs, "vert_data") <= MaxLen
        /\ SumLen(srcs, "vert_indices") <= MaxLen

StoreBuffers(d, r) ==
    sw' = [sw EXCEPT ![d].vert_data = r.vert_data,
                     ![d].vert_indices = r.vert_indices]

\* self.read_in(*shader_wrappers), called directly.
ReadIn(d, others) ==
    /\ Live(d)
    /\ \A k \in 1..Len(others) : Live(others[k])
    /\ Fits(d, others, Buffers(sw[d]))
    /\ LET r == read_in(d, others, Buffers(sw[d]))
       IN  /\ StoreBuffers(d, r)
           /\ last' = CallRec("read_in", d, others, r.raised, FALSE)
    /\ UNCHANGED <<U, T, PC, copyOf, rvars>>

\* self.combine_with(*shader_wrappers): read_in(self.copy(), *shader_wrappers)
\* when there is something to combine with. The copy is dropped afterwards.
CombineWith(d, others) ==
    /\ Live(d)
    /\ \A k \in 1..Len(others) : Live(others[k])
    /\ Fits(d, <<0>> \o others, Buffers(sw[d]))
    /\ IF Len(others) > 0
       THEN LET r == read_in(d, <<0>> \o others, Buffers(sw[d]))
            IN  /\ StoreBuffers(d, r)
                /\ last' = CallRec("combine_with", d, others, r.raised, FALSE)
       ELSE /\ last' = CallRec("combine_with", d, others, "", FALSE)
            /\ UNCHANGED sw
    /\ UNCHANGED <<U, T, PC, copyOf, rvars>>


\* ------------------------------------------- copy, mutation, replace_code

\* result = copy.copy(self) shares every attribute with self; vert_data and
\* vert_indices are then copied, uniforms and texture_paths only when they are
\* not empty, and program_code not at all.
Copy(d, c) ==
    /\ Live(d)
    /\ Fresh(c)
    /\ sw' = [sw EXCEPT ![c] =
          [sw[d] EXCEPT !.uniforms = IF Len(Uniforms(d)) > 0 THEN c ELSE @,
                        !.texture_paths = IF Len(TexturePaths(d)) > 0 THEN c ELSE @]]
    /\ U' = [U EXCEPT ![c] =
          [k \in 1..Len(Uniforms(d)) |->
              <<Uniforms(d)[k][1], NpArray(Uniforms(d)[k][2])>>]]
    /\ T' = [T EXCEPT ![c] = TexturePaths(d)]
    /\ copyOf' = [copyOf EXCEPT ![c] = d]
    /\ last' = CallRec("copy", c, <<d>>, "", FALSE)
    /\ UNCHANGED <<PC, rvars>>

\* The owner of wrapper d writes d.uniforms[key] = val.
SetUniform(d, key, val) ==
    /\ Live(d)
    /\ U' = [U EXCEPT ![sw[d].uniforms] = DictSet(@, key, val)]
    /\ last' = CallRec("set_uniform", d, <<>>, "", FALSE)
    /\ UNCHANGED <<sw, T, PC, copyOf, rvars>>

\* d.texture_paths[key] = path
SetTexture(d, key, path) ==
    /\ Live(d)
    /\ T' = [T EXCEPT ![sw[d].texture_paths] = DictSet(@, key, path)]
    /\ last' = CallRec("set_texture", d, <<>>, "", FALSE)
    /\ UNCHANGED <<sw, U, PC, copyOf, rvars>>

\* d.vert_data[i - 1] = v
SetVert(d, i, v) ==
    /\ Live(d)
    /\ i \in 1..Len(sw[d].vert_data)
    /\ sw' = [sw EXCEPT ![d].vert_data[i] = v]
    /\ last' = CallRec("set_vert", d, <<>>, "", FALSE)
    /\ UNCHANGED <<U, T, PC, copyOf, rvars>>

\* d.vert_indices[i - 1] = v
SetIndex(d, i, v) ==
    /\ Live(d)
    /\ sw[d].has_indices
    /\ i \in 1..Len(sw[d].vert_indices)
    /\ sw' = [sw EXCEPT ![d].vert_indices[i] = v]
    /\ last' = CallRec("set_index", d, <<>>, "", FALSE)
    /\ UNCHANGED <<U, T, PC, copyOf, rvars>>

\* re.sub(old, new, code) for a pattern that is one literal character.
re_sub(old, new, val) ==
    IF val.isNone THEN val ELSE TextVal(StrReplace(val.text, <<old>>, new))

\* replace_code(old, new): the substitution is written into the dict that
\* self.program_code names, then self's two ids are refreshed.
ReplaceCode(d, old, new) ==
    /\ Live(d)
    /\ LET code == [n \in DOMAIN ProgramCode(d) |-> re_sub(old, new, ProgramCode(d)[n])]
           pid == create_program_id(code)
       IN  /\ PC' = [PC EXCEPT ![sw[d].program_code] = code]
           /\ sw' = [sw EXCEPT ![d].program_id = pid,
                               ![d].id = create_id(pid, Uniforms(d), TexturePaths(d),
                                                   sw[d].depth_test,
                                                   sw[d].render_primitive)]
    /\ last' = CallRec("replace_code", d, <<>>, "", FALSE)
    /\ UNCHANGED <<U, T, copyOf, rvars>>

\* ------------------------------------------------------------------ __eq__

AllEqual(x, y) == \A i \in 1..Len(x) : x[i] = y[i]

\* np.all(x == y) on two arrays: element by element when the lengths agree, an
\* array of one element against each element of the other (broadcast), and for
\* any other two lengths False or ValueError, as the numpy at hand has it.
ArrayEq(x, y) ==
    IF Len(x) = Len(y) THEN {IF AllEqual(x, y) THEN "true" ELSE "false"}
    ELSE IF Len(x) = 1
    THEN {IF \A i \in 1..Len(y) : y[i] = x[1] THEN "true" ELSE "false"}
    ELSE IF Len(y) = 1
    THEN {IF \A i \in 1..Len(x) : x[i] = y[1] THEN "true" ELSE "false"}
    ELSE {"false", "raise"}

\* np.all(self.vert_indices == other.vert_indices) where either may be None:
\* None == None is True, and an array compared with None is False at every
\* element, which np.all takes for True when there is no element.
IndexEq(a, b) ==
    IF ~a.has_indices /\ ~b.has_indices THEN {"true"}
    ELSE IF ~a.has_indices
    THEN {IF Len(b.vert_indices) = 0 THEN "true" ELSE "false"}
    ELSE IF ~b.has_indices
    THEN {IF Len(a.vert_indices) = 0 THEN "true" ELSE "false"}
    ELSE ArrayEq(a.vert_indices, b.vert_indices)

RECURSIVE DictScan(_, _, _, _)
\* all(same(mine[key], theirs[key]) for key in mine): the keys of mine in their
\* order; theirs[key] raises KeyError for a key theirs lacks, and the first
\* unequal value ends the scan.
DictScan(mine, theirs, k, byValue) ==
    IF k > Len(mine) THEN "true"
    ELSE IF mine[k][1] \notin Keys(theirs) THEN "raise"
    ELSE IF (IF byValue THEN mine[k][2].v # Lookup(theirs, mine[k][1]).v
             ELSE mine[k][2] # Lookup(theirs, mine[k][1]))
    THEN "false"
    ELSE DictScan(mine, theirs, k + 1, byValue)

Truth(b) == IF b THEN "true" ELSE "false"

\* The seven members of the tuple that __eq__ hands to all(), given what the
\* two array comparisons came to.
EqTerms(a, b, vd, vi) ==
    << vd,
       vi,
       Truth(sw[a].shader_folder = sw[b].shader_folder),
       DictScan(Uniforms(a), Uniforms(b), 1, TRUE),
       DictScan(TexturePaths(a), TexturePaths(b), 1, FALSE),
       Truth(sw[a].depth_test = sw[b].depth_test),
       Truth(sw[a].render_primitive = sw[b].render_primitive) >>

FirstRaise(terms) == CHOOSE k \in 1..Len(terms) :
    terms[k] = "raise" /\ \A j \in 1..(k - 1) : terms[j] # "raise"

EqError(k) ==
    IF k <= 2 THEN "ValueError" ELSE "KeyError"

\* a == b
Eq(a, b) ==
    /\ Live(a)
    /\ Live(b)
    /\ \E vd \in ArrayEq(sw[a].vert_data, sw[b].vert_data), vi \in IndexEq(sw[a], sw[b]) :
         LET terms == EqTerms(a, b, vd, vi)
         IN  IF \E k \in 1..Len(terms) : terms[k] = "raise"
             THEN last' = CallRec("eq", a, <<b>>, EqError(FirstRaise(terms)), FALSE)
             ELSE last' = CallRec("eq", a, <<b>>, "",
                                  \A k \in 1..Len(terms) : terms[k] = "true")
    /\ UNCHANGED <<sw, U, T, PC, copyOf, rvars>>

\* ------------------------------------------------------ the merge, checked

MaxVerts == 2
MaxIdx == 2
MaxArgs == 2

\* The vertex records of the wrapper constructed as object d: no two wrappers
\* hold an equal record, and none holds the zero record.
VertsOf(d, n) == [j \in 1..n |-> 10 * d + j]

\* Index buffers whose every index is below the wrapper's own vertex count.
IndexPool(n) == UNION { [1..m -> 0..(n - 1)] : m \in 0..MaxIdx }

ArgSeqs == UNION { [1..m -> Ids] : m \in 0..MaxArgs }

IdleFs == [p \in Paths |-> NoneVal]

InitWrappers ==
    /\ sw = [d \in Ids |-> Absent]
    /\ U = [d \in Ids |-> <<>>]
    /\ T = [d \in Ids |-> <<>>]
    /\ PC = [d \in Ids |-> NoCode]
    /\ copyOf = [d \in Ids |-> 0]
    /\ last = NoCall
    /\ fs = IdleFs
    /\ cache = <<>>
    /\ stack = <<>>
    /\ ret = NoRet
    /\ outcome = Idle

ConstructBuffers(d) ==
    \E n \in 0..MaxVerts :
        \/ Construct(d, VertsOf(d, n), FALSE, <<>>, "f1", <<>>, <<>>, FALSE, FALSE,
                     TRIANGLE_STRIP)
        \/ \E vi \in IndexPool(n) :
             Construct(d, VertsOf(d, n), TRUE, vi, "f1", <<>>, <<>>, FALSE, FALSE,
                       TRIANGLE_STRIP)

\* Wrappers are constructed and combined.
NextMerge ==
    \/ \E d \in Ids : ConstructBuffers(d)
    \/ \E d \in Ids, others \in ArgSeqs : CombineWith(d, others)

SpecMerge == InitWrappers /\ [][NextMerge]_vars

\* Wrappers are constructed, combined with one other wrapper, and read_in is
\* called directly with at most one.
NextReadIn ==
    \/ \E d \in Ids : ConstructBuffers(d)
    \/ \E d \in Ids, o \in Ids : CombineWith(d, <<o>>)
    \/ \E d \in Ids : ReadIn(d, <<>>)
    \/ \E d \in Ids, o \in Ids : ReadIn(d, <<o>>)

SpecReadIn == InitWrappers /\ [][NextReadIn]_vars

\* C2: every value of a wrapper's vert_indices is below the length of its
\* vert_data, the wrappers having been constructed so and merged since.
C2_IndicesValid ==
    \A d \in Ids :
        (Live(d) /\ sw[d].has_indices) =>
            \A i \in 1..Len(sw[d].vert_indices) :
                sw[d].vert_indices[i] < Len(sw[d].vert_data)


\* The sources of the merge the last call made, self first.
MergeIds(call) == <<call.self>> \o call.args

RECURSIVE ConcatVerts(_)
ConcatVerts(ids) ==
    IF Len(ids) = 0 THEN <<>>
    ELSE sw[ids[1]].vert_data \o ConcatVerts(Tail(ids))

RECURSIVE ShiftedIndices(_, _)
\* Each source's indices raised by the vertex counts of the sources before it.
ShiftedIndices(ids, before) ==
    IF Len(ids) = 0 THEN <<>>
    ELSE [i \in 1..Len(sw[ids[1]].vert_indices) |-> sw[ids[1]].vert_indices[i] + before]
         \o ShiftedIndices(Tail(ids), before + Len(sw[ids[1]].vert_data))

AllIndexed(ids) == \A k \in 1..Len(ids) : sw[ids[k]].has_indices
NoneIndexed(ids) == \A k \in 1..Len(ids) : ~sw[ids[k]].has_indices
MixedIndexed(ids) == ~AllIndexed(ids) /\ ~NoneIndexed(ids)

\* What C1 says of a step that is a call of combine_with on call.self.
MergeLayout(call) ==
    LET ids == MergeIds(call)
    IN  /\ ~MixedIndexed(ids) => call.raised = ""
        /\ call.raised = "" => sw'[call.self].vert_data = ConcatVerts(ids)
        /\ AllIndexed(ids) =>
              /\ sw'[call.self].has_indices
              /\ sw'[call.self].vert_indices = ShiftedIndices(ids, 0)

IsCombine(call) == call.op = "combine_with" /\ Len(call.args) >= 1

SelfAmongArgs(call) == \E k \in 1..Len(call.args) : call.args[k] = call.self

\* C1 (as stated): combine_with(o1..oN) on s, N >= 1, leaves in s the vertices
\* of s, o1, .., oN one after the other in that order and, when every source
\* has an index buffer, the sources' indices in that order, each source's
\* raised by the number of vertices before it.
C1_MergeLayout ==
    [][IsCombine(last') => MergeLayout(last')]_vars

\* C1 (amended): the same, provided s itself is not among o1..oN.
C1_MergeLayoutDistinct ==
    [][(IsCombine(last') /\ ~SelfAmongArgs(last')) => MergeLayout(last')]_vars

\* A merge of three indexed sources, none of them self, whose last block has
\* been offset.
C1_Witness ==
    /\ IsCombine(last)
    /\ ~SelfAmongArgs(last)
    /\ Len(last.args) = 2
    /\ last.raised = ""
    /\ sw[last.self].has_indices
    /\ \A k \in 1..Len(last.args) : sw[last.args[k]].has_indices
    /\ \E i \in 1..Len(sw[last.self].vert_indices) :
          sw[last.self].vert_indices[i] >= 3

\* A wrapper that a merge has given indices above those it was built with.
C2_Witness ==
    /\ IsCombine(last)
    /\ last.raised = ""
    /\ \E i \in 1..Len(sw[last.self].vert_indices) :
          sw[last.self].vert_indices[i] >= MaxVerts

\* C5: a merge whose sources (the target among them) do not all agree on
\* having an index buffer reports an error to its caller.
C5_MixedReported ==
    [][(last'.op \in {"combine_with", "read_in"} /\ Len(last'.args) >= 1
          /\ MixedIndexed(MergeIds(last')))
        => last'.raised # ""]_vars


\* -------------------------------------------------------- copy, checked

UniformKeys == {"a", "b"}
UniformVals == {Float(2)}
TextureKeys == {"tex"}
TexturePathVals == {"p2"}

ConstructForCopy(d) ==
    \E vi \in {<<>>, <<0>>},
       u \in {<<>>, <<<<"a", Float(1)>>>>},
       t \in {<<>>, <<<<"tex", "p1">>>>} :
        Construct(d, <<1>>, Len(vi) > 0, vi, "f1", u, t, FALSE, FALSE, TRIANGLE_STRIP)

NextCopy ==
    \/ \E d \in Ids : ConstructForCopy(d)
    \/ \E d \in Ids, c \in Ids : Copy(d, c)
    \/ \E d \in Ids, k \in UniformKeys, v \in UniformVals : SetUniform(d, k, v)
    \/ \E d \in Ids, k \in TextureKeys, v \in TexturePathVals : SetTexture(d, k, v)
    \/ \E d \in Ids : SetVert(d, 1, 2)
    \/ \E d \in Ids : SetIndex(d, 1, 0)

SpecCopy == InitWrappers /\ [][NextCopy]_vars

\* Two dicts hold the same names with the same value under each.
DictEq(d1, d2) ==
    /\ Keys(d1) = Keys(d2)
    /\ \A key \in Keys(d1) : Lookup(d1, key).v = Lookup(d2, key).v

TexEq(d1, d2) ==
    /\ Keys(d1) = Keys(d2)
    /\ \A key \in Keys(d1) : Lookup(d1, key) = Lookup(d2, key)

Mutations == {"set_uniform", "set_texture", "set_vert", "set_index"}

\* C6: c = d.copy() is structurally equal to d when it is made, and no later
\* mutation of c's vert_data, vert_indices, uniforms or texture_paths changes
\* those of d; d's maps may be empty.
C6_CopyIsolated ==
    [][/\ last'.op = "copy" =>
            LET c == last'.self
                d == last'.args[1]
            IN  /\ sw'[c].vert_data = sw'[d].vert_data
                /\ sw'[c].has_indices = sw'[d].has_indices
                /\ sw'[c].vert_indices = sw'[d].vert_indices
                /\ DictEq(U'[sw'[c].uniforms], U'[sw'[d].uniforms])
                /\ TexEq(T'[sw'[c].texture_paths], T'[sw'[d].texture_paths])
       /\ (last'.op \in Mutations /\ copyOf[last'.self] # 0) =>
            LET d == copyOf[last'.self]
            IN  /\ sw'[d].vert_data = sw[d].vert_data
                /\ sw'[d].vert_indices = sw[d].vert_indices
                /\ U'[sw'[d].uniforms] = U[sw[d].uniforms]
                /\ T'[sw'[d].texture_paths] = T[sw[d].texture_paths]
      ]_vars

\* ---------------------------------------------------- identity, checked

ConstructForId(d) ==
    \E folder \in Folders,
       u \in {<<>>, <<<<"a", Float(1)>>, <<"b", Float(2)>>>>,
              <<<<"b", Float(2)>>, <<"a", Float(1)>>>>} :
        Construct(d, <<1>>, FALSE, <<>>, folder, u, <<>>, FALSE, FALSE,
                  TRIANGLE_STRIP)

NextIdentity ==
    \/ \E d \in Ids : ConstructForId(d)
    \/ \E d \in Ids, c \in Ids : Copy(d, c)
    \/ \E d \in Ids, old \in {"x", "y"}, new \in {<<"y">>, <<>>} :
         ReplaceCode(d, old, new)
    \/ \E d \in Ids, o \in Ids : CombineWith(d, <<o>>)

SpecIdentity == InitWrappers /\ [][NextIdentity]_vars

\* C7: two wrappers with equal shader_folder, equal source text, equal uniforms
\* (the same names and values, in whatever order they were inserted), equal
\* texture_paths, depth_test and render_primitive have equal get_id() and equal
\* get_program_id(), whatever their buffers hold.
C7_EqualConfigEqualId ==
    \A a \in Ids, b \in Ids :
        (/\ Live(a) /\ Live(b)
         /\ sw[a].shader_folder = sw[b].shader_folder
         /\ ProgramCode(a) = ProgramCode(b)
         /\ DictEq(Uniforms(a), Uniforms(b))
         /\ TexEq(TexturePaths(a), TexturePaths(b))
         /\ sw[a].depth_test = sw[b].depth_test
         /\ sw[a].render_primitive = sw[b].render_primitive)
        => (sw[a].id = sw[b].id /\ sw[a].program_id = sw[b].program_id)

\* C10: whatever was constructed, copied, combined or given new code, every
\* wrapper's program_id is the hash of its own current vertex, geometry and
\* fragment source, in that order.
C10_ProgramIdCurrent ==
    \A d \in Ids : Live(d) => sw[d].program_id = create_program_id(ProgramCode(d))


\* ------------------------------------------------------- __eq__, checked

\* shader_folder, depth_test, use_clip_plane and render_primitive as the
\* wrappers compared are built with: one plain setting, and each of the four
\* changed alone.
Settings ==
    { <<"f1", FALSE, FALSE, TRIANGLE_STRIP>>, <<"f2", FALSE, FALSE, TRIANGLE_STRIP>>,
      <<"f1", TRUE, FALSE, TRIANGLE_STRIP>>, <<"f1", FALSE, TRUE, TRIANGLE_STRIP>>,
      <<"f1", FALSE, FALSE, TRIANGLES>> }

ConstructForEq(d) ==
    \E vd \in {<<1>>, <<2>>},
       vi \in {[has |-> FALSE, idx |-> <<>>], [has |-> TRUE, idx |-> <<0>>]},
       u \in {<<>>, <<<<"a", Float(1)>>>>, <<<<"a", Float(2)>>>>},
       t \in {<<>>, <<<<"tex", "p1">>>>},
       c \in Settings :
        Construct(d, vd, vi.has, vi.idx, c[1], u, t, c[2], c[3], c[4])

NextEq ==
    \/ \E d \in Ids : ConstructForEq(d)
    \/ \E a \in Ids, b \in Ids : Eq(a, b)

SpecEq == InitWrappers /\ [][NextEq]_vars

\* Equal in every attribute that C8 names.
StructEq(a, b) ==
    /\ sw[a].vert_data = sw[b].vert_data
    /\ sw[a].has_indices = sw[b].has_indices
    /\ sw[a].vert_indices = sw[b].vert_indices
    /\ sw[a].shader_folder = sw[b].shader_folder
    /\ DictEq(Uniforms(a), Uniforms(b))
    /\ TexEq(TexturePaths(a), TexturePaths(b))
    /\ sw[a].depth_test = sw[b].depth_test
    /\ sw[a].render_primitive = sw[b].render_primitive

\* C8: a == b never raises and is true exactly when a and b agree on
\* vert_data, vert_indices, shader_folder, uniforms, texture_paths, depth_test
\* and render_primitive.
C8_EqIsStructural ==
    last.op = "eq" =>
        /\ last.raised = ""
        /\ last.res = StructEq(last.self, last.args[1])

\* The file names callers ask for.
CallNames == Paths \cup {""}

\* The lines and texts the files on disk are drawn from.
LinePool ==
    { <<"x">>, <<"#INSERT a.glsl">>, <<"#INSERT b.glsl">>,
      <<"//", "#INSERT a.glsl">> }

MaxLines == 2

TextPool ==
    {<<>>} \cup LinePool
    \cup (IF MaxLines >= 2 THEN { JoinLines(<<l1, l2>>) : l1 \in LinePool, l2 \in LinePool } ELSE {})
    \cup (IF MaxLines >= 3 THEN { JoinLines(<<l1, l2, l3>>) : l1 \in LinePool, l2 \in LinePool, l3 \in LinePool } ELSE {})

\* The shared fragments under inserts/ hold at most one line.
InsertPool == {<<>>} \cup LinePool

FilePool(path) == IF path = "main.glsl" THEN TextPool ELSE InsertPool

FileSystems ==
    { f \in [Paths -> {NoneVal} \cup { TextVal(t) : t \in TextPool }] :
        \A p \in Paths : f[p].isNone \/ f[p].text \in FilePool(p) }

InitResolve ==
    /\ fs \in FileSystems
    /\ cache = <<>>
    /\ stack = <<>>
    /\ ret = NoRet
    /\ outcome = Idle
    /\ sw = [d \in Ids |-> Absent]
    /\ U = [d \in Ids |-> <<>>]
    /\ T = [d \in Ids |-> <<>>]
    /\ PC = [d \in Ids |-> NoCode]
    /\ copyOf = [d \in Ids |-> 0]
    /\ last = NoCall

NextResolve ==
    \/ \E f \in CallNames : Call(f)
    \/ Recurse
    \/ Substitute
    \/ Return

SpecResolve == InitResolve /\ [][NextResolve]_vars

\* ------------------------------------------------- claims on the resolver

\* The files a file's directive lines name.
Includes(files, p) ==
    IF find_file_raises(files, p) THEN {}
    ELSE { InsertPath(FindInsertions(read_file(files, p))[k]) :
             k \in 1..Len(FindInsertions(read_file(files, p))) }

RECURSIVE ReachSteps(_, _, _)
ReachSteps(files, set, n) ==
    IF n = 0 THEN set
    ELSE ReachSteps(files, set \cup UNION { Includes(files, q) : q \in set }, n - 1)

\* Every file the resolution of p can ask for, without and with p itself.
Below(files, p) == ReachSteps(files, Includes(files, p), Cardinality(Paths))
Reach(files, p) == {p} \cup Below(files, p)

AllExist(files, p) == \A q \in Reach(files, p) : ~find_file_raises(files, q)
Cyclic(files, p) == \E q \in Reach(files, p) : q \in Below(files, q)

Finished == outcome.status \in {"returned", "raised"}

RECURSIVE Expected(_, _)
RECURSIVE ExpectedLines(_, _)
\* The text the include directive is specified to give: each directive line,
\* and nothing but the directive lines, replaced by the resolved text of the
\* file it names.
ExpectedLines(files, lines) ==
    IF Len(lines) = 0 THEN <<>>
    ELSE <<IF IsInsertLine(lines[1])
           THEN Expected(files, InsertPath(lines[1]))
           ELSE lines[1]>> \o ExpectedLines(files, Tail(lines))
Expected(files, p) == JoinLines(ExpectedLines(files, SplitLines(read_file(files, p))))

\* A and B name each other in a directive line.
InTwoCycle(files, p) ==
    \E q \in Paths : q # p /\ q \in Includes(files, p) /\ p \in Includes(files, q)

\* C3: resolving a file whose include graph is cyclic (A has a directive line
\* for B, B one for A, every file exists) ends with an explicit cycle error
\* given to the caller of get_shader_code_from_file.
C3_CycleError ==
    (Finished /\ AllExist(fs, outcome.filename) /\ InTwoCycle(fs, outcome.filename))
        => (outcome.status = "raised" /\ outcome.exc = "CycleError")

\* C4: get_shader_code_from_file never raises for a missing file: when the
\* file asked for, or a file named by a directive line at any depth below it,
\* is missing, the call returns None.
C4_MissingIsNone ==
    (Finished /\ ~AllExist(fs, outcome.filename) /\ ~Cyclic(fs, outcome.filename))
        => (outcome.status = "returned" /\ outcome.val.isNone)

\* C9: when every referenced file exists (and the includes are not cyclic), the
\* call returns the file's text with each directive line replaced by the fully
\* resolved text of the file it names and every other line unchanged.
C9_DirectiveLinesReplaced ==
    (Finished /\ AllExist(fs, outcome.filename) /\ ~Cyclic(fs, outcome.filename))
        => (/\ outcome.status = "returned"
            /\ ~outcome.val.isNone
            /\ outcome.val.text = Expected(fs, outcome.filename))

====
